---- MODULE Spec2Model ----
(***************************************************************************)
(* Model of src/Functions/makeDate.cpp: the row loops of makeDate,         *)
(* makeDate32, YYYYMMDDToDate, YYYYMMDDToDate32, makeDateTime,             *)
(* makeDateTime64, YYYYMMDDhhmmssToDateTime and YYYYMMDDhhmmssToDateTime64.*)
(*                                                                         *)
(* A call is a state machine: "start" (argument extraction), then per row  *)
(* "loop" (the loop head) and "stored" (the loop body has run and written  *)
(* result_data[i]), then "returned" or "thrown".  The state keeps the      *)
(* locals of the current iteration and the element it wrote; the rows      *)
(* before it are only counted (i).                                         *)
(***************************************************************************)
EXTENDS Integers, Sequences, FiniteSets, TLC

\* Largest batch (input_rows_count) explored.
MaxRows == 2

(***************************************************************************)
(* Floating-point column values.  A finite value is kept as a whole number *)
(* of halves (h = 2 * value), so that 28.5 is a value and a narrowing cast *)
(* has something to truncate; NaN and the infinities are classes of their  *)
(* own.  Comparisons with NaN are false, as in IEEE 754.                   *)
(***************************************************************************)
NaN == [cls |-> "nan", h |-> 0]
Inf == [cls |-> "inf", h |-> 0]
NegInf == [cls |-> "ninf", h |-> 0]
F(n) == [cls |-> "fin", h |-> 2 * n]
\* n + 0.5
FHalf(n) == [cls |-> "fin", h |-> 2 * n + 1]

isnan(x) == x.cls = "nan"
isinf(x) == x.cls \in {"inf", "ninf"}
\* x >= c, x <= c, x < c, x > c for a float x and an integer c
FGe(x, c) == x.cls = "inf" \/ (x.cls = "fin" /\ x.h >= 2 * c)
FLe(x, c) == x.cls = "ninf" \/ (x.cls = "fin" /\ x.h <= 2 * c)
FLt(x, c) == x.cls = "ninf" \/ (x.cls = "fin" /\ x.h < 2 * c)
FGt(x, c) == x.cls = "inf" \/ (x.cls = "fin" /\ x.h > 2 * c)

\* C++ integer division and remainder: the quotient truncates toward zero.
TruncDiv(a, b) == IF a >= 0 THEN a \div b ELSE -((-a) \div b)
TruncMod(a, b) == a - b * TruncDiv(a, b)

\* static_cast<integer>(x) of a finite float: truncation toward zero.
static_cast_int(x) == TruncDiv(x.h, 2)
\* std::llround of a finite float: to nearest, halves away from zero.
llround(x) == IF x.h % 2 = 0 THEN TruncDiv(x.h, 2)
              ELSE IF x.h > 0 THEN (x.h + 1) \div 2 ELSE -((1 - x.h) \div 2)

(***************************************************************************)
(* 64-bit integers.  TLC's integers are 32 bits wide, so an Int64 is kept  *)
(* as a sign and three limbs of nine decimal digits:                       *)
(*   value = sign * (m[1] * 10^18 + m[2] * 10^9 + m[3]).                   *)
(***************************************************************************)
Limb == 1000000000

Pow10(p) == CASE p = 0 -> 1 [] p = 1 -> 10 [] p = 2 -> 100 [] p = 3 -> 1000
              [] p = 4 -> 10000 [] p = 5 -> 100000 [] p = 6 -> 1000000
              [] p = 7 -> 10000000 [] p = 8 -> 100000000 [] p = 9 -> 1000000000

Abs(n) == IF n < 0 THEN -n ELSE n
MagZero == <<0, 0, 0>>
BigNorm(neg, m) == [neg |-> neg /\ m # MagZero, m |-> m]
\* an Int64 from a TLC integer
Big(n) == BigNorm(n < 0, <<0, Abs(n) \div Limb, Abs(n) % Limb>>)
\* an Int64 from its limbs
BigOf(neg, a, b, c) == BigNorm(neg, <<a, b, c>>)

MagLt(x, y) == \/ x[1] < y[1]
               \/ (x[1] = y[1] /\ x[2] < y[2])
               \/ (x[1] = y[1] /\ x[2] = y[2] /\ x[3] < y[3])
MagAdd(x, y) ==
    LET c == x[3] + y[3]
        b == x[2] + y[2] + c \div Limb
        a == x[1] + y[1] + b \div Limb
    IN  <<a, b % Limb, c % Limb>>
\* x - y for x >= y
MagSub(x, y) ==
    LET c == x[3] - y[3]
        bc == IF c < 0 THEN 1 ELSE 0
        b == x[2] - y[2] - bc
        bb == IF b < 0 THEN 1 ELSE 0
    IN  <<x[1] - y[1] - bb, IF b < 0 THEN b + Limb ELSE b, IF c < 0 THEN c + Limb ELSE c>>
\* m * 10^p, 0 <= p <= 9; the top limb keeps what overflows 27 digits
MagMulPow10(m, p) ==
    LET P == Pow10(p)
        Q == Pow10(9 - p)
    IN  <<m[1] * P + m[2] \div Q, (m[2] % Q) * P + m[3] \div Q, (m[3] % Q) * P>>

\* m / 10^p and m % 10^p, 0 <= p <= 9
MagDivPow10(m, p) ==
    LET P == Pow10(p)
        R == Pow10(9 - p)
    IN  <<m[1] \div P, (m[1] % P) * R + m[2] \div P, (m[2] % P) * R + m[3] \div P>>
MagModPow10(m, p) == IF p = 9 THEN m[3] ELSE m[3] % Pow10(p)

BigLt(x, y) == IF x.neg # y.neg THEN x.neg
               ELSE IF x.neg THEN MagLt(y.m, x.m) ELSE MagLt(x.m, y.m)
BigLe(x, y) == x = y \/ BigLt(x, y)
BigNeg(x) == BigNorm(~x.neg, x.m)
BigAdd(x, y) == IF x.neg = y.neg THEN BigNorm(x.neg, MagAdd(x.m, y.m))
                ELSE IF MagLt(x.m, y.m) THEN BigNorm(y.neg, MagSub(y.m, x.m))
                ELSE BigNorm(x.neg, MagSub(x.m, y.m))
BigSub(x, y) == BigAdd(x, BigNeg(y))
BigMulPow10(x, p) == BigNorm(x.neg, MagMulPow10(x.m, p))

\* x / 10^p and x % 10^p with the quotient truncated toward zero (the
\* remainder, below 10^9 in magnitude, is a TLC integer with the sign of x)
BigDivPow10(x, p) == BigNorm(x.neg, MagDivPow10(x.m, p))
BigModPow10(x, p) == IF x.neg THEN -MagModPow10(x.m, p) ELSE MagModPow10(x.m, p)
\* the TLC integer of an Int64 below 2 * 10^9 in magnitude
BigToInt(x) == IF x.neg THEN -(x.m[2] * Limb + x.m[3]) ELSE x.m[2] * Limb + x.m[3]

\* The range of a signed 64-bit integer: [-2^63, 2^63 - 1].
INT64_MAX == BigOf(FALSE, 9, 223372036, 854775807)
INT64_MIN == BigOf(TRUE, 9, 223372036, 854775808)
FitsInt64(x) == BigLe(INT64_MIN, x) /\ BigLe(x, INT64_MAX)
\* 0x0ffffffffll
UINT32_MAX == BigOf(FALSE, 0, 4, 294967295)
BigZero == Big(0)
\* 2^32
TWO_POW_32 == BigOf(FALSE, 0, 4, 294967296)
\* static_cast<UInt32> of an Int64: the value modulo 2^32
RECURSIVE UInt32Of(_)
UInt32Of(x) == IF x.neg THEN UInt32Of(BigAdd(x, TWO_POW_32))
               ELSE IF BigLt(UINT32_MAX, x) THEN UInt32Of(BigSub(x, TWO_POW_32))
               ELSE x

(***************************************************************************)
(* The Calendar Service (DateLUTImpl, UTC).                                *)
(***************************************************************************)
DATE_LUT_MIN_YEAR == 1900
DATE_LUT_MAX_YEAR == 2299

\* Days from 1970-01-01 to the proleptic Gregorian (year, month, 1), plus
\* day - 1: a day past the end of the month runs on into the next month.
daysFromCivil(year, month, day) ==
    LET y == IF month <= 2 THEN year - 1 ELSE year
        era == y \div 400
        yoe == y - era * 400
        mp == IF month > 2 THEN month - 3 ELSE month + 9
        doy == (153 * mp + 2) \div 5 + day - 1
        doe == yoe * 365 + yoe \div 4 - yoe \div 100 + doy
    IN  era * 146097 + doe - 719468

\* The last day of the lookup table, 2299-12-31.
LUT_LAST_DAY == daysFromCivil(DATE_LUT_MAX_YEAR, 12, 31)
\* The first day of the lookup table, 1900-01-01.
LUT_FIRST_DAY == daysFromCivil(DATE_LUT_MIN_YEAR, 1, 1)

\* The table's day for (year, month, day): the first day for a date below
\* the table or with an invalid month or day, the last day for one above.
makeLUTIndex(year, month, day) ==
    IF year < DATE_LUT_MIN_YEAR \/ month < 1 \/ month > 12 \/ day < 1 \/ day > 31
    THEN LUT_FIRST_DAY
    ELSE IF year > DATE_LUT_MAX_YEAR THEN LUT_LAST_DAY
    ELSE LET d == daysFromCivil(year, month, day)
         IN  IF d > LUT_LAST_DAY THEN LUT_LAST_DAY ELSE d

\* dayNumber(year, month, day)
makeDayNum(year, month, day) ==
    IF year < DATE_LUT_MIN_YEAR \/ month < 1 \/ month > 12 \/ day < 1 \/ day > 31
    THEN 0
    ELSE makeLUTIndex(year, month, day)

\* secondsSinceEpoch(year, month, day, hour, minute, second):
\* day * 86400 + hour * 3600 + minute * 60 + second, as an Int64.
lut_makeDateTime(year, month, day, hour, minute, second) ==
    LET d == makeLUTIndex(year, month, day)
        t == hour * 3600 + minute * 60 + second
    IN  BigAdd(BigMulPow10(Big(d * 864), 2), Big(t))

(***************************************************************************)
(* The state of one call of executeImpl.                                   *)
(***************************************************************************)
VARIABLES
    fn,                 \* getName(): the function called
    nargs,              \* arguments.size()
    precision_arg,      \* the value of the precision argument, when given
    precision_is_const, \* whether the precision argument is a constant column
    timezone_is_const,  \* whether the timezone argument is a constant column
    precision,          \* the precision the row loop uses
    input_rows_count,   \* rows of the batch
    i,                  \* the loop index: rows processed before the current one
    row,                \* the converted arguments at row i, once the body has read them
    date_time,          \* the local date_time of the iteration (datetime functions)
    fraction,           \* the fractional component the iteration hands to the packing
    result_data,        \* <<>>, or <<v>> once the iteration has written v = result_data[i]
    lut_calls,          \* the arguments of the calendar calls the iteration has made
    pc,                 \* "start", "loop", "stored", "returned" or "thrown"
    exception           \* the error code of the exception thrown, or "none"

vars == <<fn, nargs, precision_arg, precision_is_const, timezone_is_const, precision,
          input_rows_count, i, row, date_time, fraction, result_data, lut_calls, pc,
          exception>>

DEFAULT_PRECISION == 3

(***************************************************************************)
(* makeDate, makeDate32, YYYYMMDDToDate, YYYYMMDDToDate32                  *)
(***************************************************************************)
DateTraits ==
    [makeDateName |-> "makeDate", YYYYMMDDName |-> "YYYYMMDDToDate",
     ReturnDataType |-> "Date", MIN_YEAR |-> 1970, MAX_YEAR |-> 2149,
     MAX_DATE |-> <<2149, 6, 6>>]
Date32Traits ==
    [makeDateName |-> "makeDate32", YYYYMMDDName |-> "YYYYMMDDToDate32",
     ReturnDataType |-> "Date32", MIN_YEAR |-> 1900, MAX_YEAR |-> 2299,
     MAX_DATE |-> <<2299, 12, 31>>]
AllTraits == {DateTraits, Date32Traits}
\* The traits a function name is instantiated with.
TraitsOf(name) ==
    CHOOSE T \in AllTraits : name \in {T.makeDateName, T.YYYYMMDDName}

\* date_lut.makeDayNum(Traits::MAX_DATE[0], Traits::MAX_DATE[1], Traits::MAX_DATE[2])
max_days_since_epoch(T) == makeDayNum(T.MAX_DATE[1], T.MAX_DATE[2], T.MAX_DATE[3])

\* static_cast<Int16>, static_cast<UInt8> of a float or an integer: the
\* truncated value, narrowed to the width.
Int16Of(n) == ((n + 32768) % 65536) - 32768
UInt8Of(n) == n % 256

\* result_data[i] = day_num: the column of Date holds UInt16, that of Date32 Int32.
StoreDayNum(T, day_num) ==
    IF T.ReturnDataType = "Date" THEN day_num % 65536 ELSE day_num

\* Variant of YearMonthDayInBounds that forgets the lower bound of the year.
YearMonthDayInBounds_noMinYear(T, year, month, day) ==
    /\ FLe(year, T.MAX_YEAR)
    /\ FGe(month, 1) /\ FLe(month, 12)
    /\ FGe(day, 1) /\ FLe(day, 31)

\* The bounds check of the (year, month, day) loops on float fields.
YearMonthDayInBounds(T, year, month, day) ==
    /\ FGe(year, T.MIN_YEAR) /\ FLe(year, T.MAX_YEAR)
    /\ FGe(month, 1) /\ FLe(month, 12)
    /\ FGe(day, 1) /\ FLe(day, 31)

\* Variant of makeDate_year_month_day that compares with < instead of <=.
makeDate_year_month_day_lt(T, year, month, day) ==
    IF YearMonthDayInBounds(T, year, month, day)
    THEN LET days_since_epoch ==
                 makeDayNum(Int16Of(static_cast_int(year)), UInt8Of(static_cast_int(month)),
                            UInt8Of(static_cast_int(day)))
         IN  IF days_since_epoch < max_days_since_epoch(T) THEN days_since_epoch ELSE 0
    ELSE 0

\* Variant of makeDate_year_month_day without the comparison with the maximum.
makeDate_year_month_day_noMax(T, year, month, day) ==
    IF YearMonthDayInBounds(T, year, month, day)
    THEN makeDayNum(Int16Of(static_cast_int(year)), UInt8Of(static_cast_int(month)),
                    UInt8Of(static_cast_int(day)))
    ELSE 0

\* day_num of one row of makeDate(year, month, day).
makeDate_year_month_day(T, year, month, day) ==
    IF YearMonthDayInBounds(T, year, month, day)
    THEN LET days_since_epoch ==
                 makeDayNum(Int16Of(static_cast_int(year)), UInt8Of(static_cast_int(month)),
                            UInt8Of(static_cast_int(day)))
         IN  IF days_since_epoch <= max_days_since_epoch(T) THEN days_since_epoch ELSE 0
    ELSE 0

\* Variant of makeDate_year_dayofyear that counts the day of the year from 0.
makeDate_year_dayofyear_fromZero(T, year, dayofyear) ==
    IF /\ FGe(year, T.MIN_YEAR) /\ FLe(year, T.MAX_YEAR)
       /\ FGe(dayofyear, 1) /\ FLe(dayofyear, 365)
    THEN LET days_since_epoch ==
                 makeDayNum(Int16Of(static_cast_int(year)), 1, 1) + static_cast_int(dayofyear)
         IN  IF days_since_epoch <= max_days_since_epoch(T) THEN days_since_epoch ELSE 0
    ELSE 0

\* day_num of one row of makeDate(year, dayofyear).
makeDate_year_dayofyear(T, year, dayofyear) ==
    IF /\ FGe(year, T.MIN_YEAR) /\ FLe(year, T.MAX_YEAR)
       /\ FGe(dayofyear, 1) /\ FLe(dayofyear, 365)
    THEN LET days_since_epoch ==
                 makeDayNum(Int16Of(static_cast_int(year)), 1, 1) + static_cast_int(dayofyear) - 1
         IN  IF days_since_epoch <= max_days_since_epoch(T) THEN days_since_epoch ELSE 0
    ELSE 0

\* The decomposition with the month taken as yyyymmdd / 100.
decomposeDate_monthNoMod(yyyymmdd) ==
    [year |-> TruncDiv(yyyymmdd, 10000),
     month |-> TruncDiv(yyyymmdd, 100),
     day |-> TruncMod(yyyymmdd, 100)]

\* The fields the YYYYMMDDToDate loop decomposes an integer into.
decomposeDate(yyyymmdd) ==
    [year |-> TruncDiv(yyyymmdd, 10000),
     month |-> TruncMod(TruncDiv(yyyymmdd, 100), 100),
     day |-> TruncMod(yyyymmdd, 100)]

\* day_num of one row of YYYYMMDDToDate, for a finite argument.
YYYYMMDDToDate_day_num(T, arg) ==
    LET yyyymmdd == llround(arg)
        year == decomposeDate(yyyymmdd).year
        month == decomposeDate(yyyymmdd).month
        day == decomposeDate(yyyymmdd).day
    IN  IF /\ year >= T.MIN_YEAR /\ year <= T.MAX_YEAR
           /\ month >= 1 /\ month <= 12
           /\ day >= 1 /\ day <= 31
        THEN LET days_since_epoch == makeDayNum(Int16Of(year), UInt8Of(month), UInt8Of(day))
             IN  IF days_since_epoch <= max_days_since_epoch(T) THEN days_since_epoch ELSE 0
        ELSE 0

\* The calls of date_lut.makeDayNum the iterations of the date loops make, as
\* the tuples of their arguments after static_cast<Int16> / static_cast<UInt8>.
lut_calls_year_month_day(T, year, month, day) ==
    IF YearMonthDayInBounds(T, year, month, day)
    THEN {<<Int16Of(static_cast_int(year)), UInt8Of(static_cast_int(month)),
            UInt8Of(static_cast_int(day))>>}
    ELSE {}

lut_calls_year_dayofyear(T, year, dayofyear) ==
    IF /\ FGe(year, T.MIN_YEAR) /\ FLe(year, T.MAX_YEAR)
       /\ FGe(dayofyear, 1) /\ FLe(dayofyear, 365)
    THEN {<<Int16Of(static_cast_int(year)), 1, 1>>}
    ELSE {}

lut_calls_YYYYMMDDToDate(T, arg) ==
    LET f == decomposeDate(llround(arg))
    IN  IF /\ f.year >= T.MIN_YEAR /\ f.year <= T.MAX_YEAR
           /\ f.month >= 1 /\ f.month <= 12
           /\ f.day >= 1 /\ f.day <= 31
        THEN {<<Int16Of(f.year), UInt8Of(f.month), UInt8Of(f.day)>>}
        ELSE {}

\* Column values the date functions are run on.
DateYearValues ==
    {NaN, Inf, NegInf, F(1899), F(1900), F(1969), F(1970), F(2023), FHalf(2023), F(2149), FHalf(2149),
     F(2150), F(2299), F(2300)}
DateMonthValues == {NaN, F(0), F(1), F(2), F(6), F(12), FHalf(12), F(13)}
DateDayValues == {NaN, F(0), FHalf(0), F(1), F(6), F(7), FHalf(28), F(31), F(32)}
DayOfYearValues ==
    {NaN, F(0), FHalf(0), F(1), F(42), F(157), FHalf(157), F(158), F(365), FHalf(365), F(366), Inf}
YYYYMMDDValues ==
    {NaN, Inf, NegInf, F(0), F(-20230911), F(18991231), F(19000101), F(19691231),
     F(19700101), F(20230911), FHalf(20230911), F(20230229), F(20230231), F(20230100),
     F(20230132), F(20231301), F(20230011), F(21490606), F(21490607), F(21491231),
     F(21500101), F(22991231), F(23000101)}

MakeDateNames == {"makeDate", "makeDate32"}
YYYYMMDDNames == {"YYYYMMDDToDate", "YYYYMMDDToDate32"}
DateFunctions == MakeDateNames \cup YYYYMMDDNames

\* The argument counts each function is called with.
ArgCounts(name) ==
    CASE name \in MakeDateNames -> {2, 3}
      [] name \in YYYYMMDDNames -> {1}
      [] name = "makeDateTime" -> {6, 7}
      [] name = "makeDateTime64" -> {6, 7, 8, 9}
      [] name = "YYYYMMDDhhmmssToDateTime" -> {1, 2}
      [] name = "YYYYMMDDhhmmssToDateTime64" -> {1, 2, 3}

\* Whether a call with n arguments carries the optional precision argument.
HasPrecisionArgument(name, n) ==
    \/ name = "makeDateTime64" /\ n >= 8
    \/ name = "YYYYMMDDhhmmssToDateTime64" /\ n >= 2

\* Whether a call with n arguments carries the optional timezone argument (the
\* last one; the calendar of the model is that of one timezone for any name).
HasTimezoneArgument(name, n) ==
    \/ name = "makeDateTime" /\ n = 7
    \/ name = "makeDateTime64" /\ n = 9
    \/ name = "YYYYMMDDhhmmssToDateTime" /\ n = 2
    \/ name = "YYYYMMDDhhmmssToDateTime64" /\ n = 3

\* Values of the precision argument a call is made with.
PrecisionArguments == -1 .. 10

InitCall(names) ==
    /\ fn \in names
    /\ nargs \in ArgCounts(fn)
    /\ precision_arg \in IF HasPrecisionArgument(fn, nargs) THEN PrecisionArguments
                          ELSE {DEFAULT_PRECISION}
    /\ precision_is_const \in IF HasPrecisionArgument(fn, nargs) THEN BOOLEAN ELSE {TRUE}
    /\ timezone_is_const \in IF HasTimezoneArgument(fn, nargs) THEN BOOLEAN ELSE {TRUE}
    /\ precision = DEFAULT_PRECISION
    /\ input_rows_count \in 0 .. MaxRows
    /\ i = 0
    /\ row = <<>>
    /\ date_time = BigZero
    /\ fraction = 0
    /\ result_data = <<>>
    /\ lut_calls = {}
    /\ pc = "start"
    /\ exception = "none"

\* executeImpl up to the row loop, for the functions without optional arguments:
\* the arguments are converted and the result column is created.
StartDate ==
    /\ pc = "start"
    /\ fn \in DateFunctions
    /\ pc' = "loop"
    /\ UNCHANGED <<fn, nargs, precision_arg, precision_is_const, timezone_is_const,
                   precision, input_rows_count, i, row, date_time, fraction, result_data,
                   exception, lut_calls>>

\* One iteration of the (year, month, day) loop of FunctionMakeDate.
MakeDateYearMonthDayRow ==
    /\ pc = "loop"
    /\ fn \in MakeDateNames
    /\ nargs = 3
    /\ i < input_rows_count
    /\ \E year \in DateYearValues, month \in DateMonthValues, day \in DateDayValues :
           /\ row' = <<year, month, day>>
           /\ lut_calls' = lut_calls_year_month_day(TraitsOf(fn), year, month, day)
           /\ result_data' =
                  <<StoreDayNum(TraitsOf(fn), makeDate_year_month_day(TraitsOf(fn), year, month, day))>>
    /\ pc' = "stored"
    /\ UNCHANGED <<fn, nargs, precision_arg, precision_is_const, timezone_is_const,
                   precision, input_rows_count, i, date_time, fraction, exception>>

\* One iteration of the (year, dayofyear) loop of FunctionMakeDate.
MakeDateYearDayOfYearRow ==
    /\ pc = "loop"
    /\ fn \in MakeDateNames
    /\ nargs # 3
    /\ i < input_rows_count
    /\ \E year \in DateYearValues, dayofyear \in DayOfYearValues :
           /\ row' = <<year, dayofyear>>
           /\ lut_calls' = lut_calls_year_dayofyear(TraitsOf(fn), year, dayofyear)
           /\ result_data' =
                  <<StoreDayNum(TraitsOf(fn), makeDate_year_dayofyear(TraitsOf(fn), year, dayofyear))>>
    /\ pc' = "stored"
    /\ UNCHANGED <<fn, nargs, precision_arg, precision_is_const, timezone_is_const,
                   precision, input_rows_count, i, date_time, fraction, exception>>

\* One iteration of the loop of FunctionYYYYYMMDDToDate on a finite argument.
YYYYMMDDToDateRow ==
    /\ pc = "loop"
    /\ fn \in YYYYMMDDNames
    /\ i < input_rows_count
    /\ \E arg \in YYYYMMDDValues :
           /\ ~(isinf(arg) \/ isnan(arg))
           /\ row' = <<arg>>
           /\ lut_calls' = lut_calls_YYYYMMDDToDate(TraitsOf(fn), arg)
           /\ result_data' = <<StoreDayNum(TraitsOf(fn), YYYYMMDDToDate_day_num(TraitsOf(fn), arg))>>
    /\ pc' = "stored"
    /\ UNCHANGED <<fn, nargs, precision_arg, precision_is_const, timezone_is_const,
                   precision, input_rows_count, i, date_time, fraction, exception>>

\* The iteration of the loop of FunctionYYYYYMMDDToDate that meets an infinite
\* or NaN argument: the call throws BAD_ARGUMENTS.
YYYYMMDDToDateThrow ==
    /\ pc = "loop"
    /\ fn \in YYYYMMDDNames
    /\ i < input_rows_count
    /\ \E arg \in YYYYMMDDValues :
           /\ isinf(arg) \/ isnan(arg)
           /\ row' = <<arg>>
    /\ pc' = "thrown"
    /\ exception' = "BAD_ARGUMENTS"
    /\ UNCHANGED <<fn, nargs, precision_arg, precision_is_const, timezone_is_const,
                   precision, input_rows_count, i, date_time, fraction, result_data, lut_calls>>

\* ++i: the iteration ends and its locals go out of scope.
NextRow ==
    /\ pc = "stored"
    /\ pc' = "loop"
    /\ i' = i + 1
    /\ row' = <<>>
    /\ date_time' = BigZero
    /\ fraction' = 0
    /\ result_data' = <<>>
    /\ lut_calls' = {}
    /\ UNCHANGED <<fn, nargs, precision_arg, precision_is_const, timezone_is_const,
                   precision, input_rows_count, exception>>

\* The loop has run over every row: executeImpl returns res_column.
Return ==
    /\ pc = "loop"
    /\ i = input_rows_count
    /\ pc' = "returned"
    /\ UNCHANGED <<fn, nargs, precision_arg, precision_is_const, timezone_is_const,
                   precision, input_rows_count, i, row, date_time, fraction, result_data,
                   exception, lut_calls>>

NextDate ==
    \/ StartDate
    \/ MakeDateYearMonthDayRow
    \/ MakeDateYearDayOfYearRow
    \/ YYYYMMDDToDateRow
    \/ YYYYMMDDToDateThrow
    \/ NextRow
    \/ Return

\* Calls of makeDate, makeDate32, YYYYMMDDToDate and YYYYMMDDToDate32.
SpecDate == InitCall(DateFunctions) /\ [][NextDate]_vars

(***************************************************************************)
(* makeDateTime, makeDateTime64, YYYYMMDDhhmmssToDateTime,                 *)
(* YYYYMMDDhhmmssToDateTime64                                              *)
(***************************************************************************)
\* lut.makeDateTime(DATE_LUT_MIN_YEAR - 1, 1, 1, 0, 0, 0)
minDateTime == lut_makeDateTime(DATE_LUT_MIN_YEAR - 1, 1, 1, 0, 0, 0)
\* lut.makeDateTime(DATE_LUT_MAX_YEAR + 1, 1, 1, 23, 59, 59)
maxDateTime == lut_makeDateTime(DATE_LUT_MAX_YEAR + 1, 1, 1, 23, 59, 59)

\* dateTime with the year > DATE_LUT_MAX_YEAR test moved before the test of the
\* other fields.
dateTime_yearMaxFirst(year, month, day_of_month, hour, minute, second) ==
    IF FGt(year, DATE_LUT_MAX_YEAR) THEN maxDateTime
    ELSE IF \/ isnan(year) \/ isnan(month) \/ isnan(day_of_month)
            \/ isnan(hour) \/ isnan(minute) \/ isnan(second)
            \/ FLt(year, DATE_LUT_MIN_YEAR) \/ FLt(month, 1) \/ FGt(month, 12)
            \/ FLt(day_of_month, 1) \/ FGt(day_of_month, 31)
            \/ FLt(hour, 0) \/ FGt(hour, 99) \/ FLt(minute, 0) \/ FGt(minute, 99)
            \/ FLt(second, 0) \/ FGt(second, 99)
    THEN minDateTime
    ELSE lut_makeDateTime(Int16Of(static_cast_int(year)), UInt8Of(static_cast_int(month)),
                          UInt8Of(static_cast_int(day_of_month)), UInt8Of(static_cast_int(hour)),
                          UInt8Of(static_cast_int(minute)), UInt8Of(static_cast_int(second)))

\* FunctionDateTimeBase::dateTime on fields of type T (Float32 fields, or the
\* integers of a decomposed value, which are whole floats here).
dateTime(year, month, day_of_month, hour, minute, second) ==
    IF \/ isnan(year) \/ isnan(month) \/ isnan(day_of_month)
       \/ isnan(hour) \/ isnan(minute) \/ isnan(second)
       \/ FLt(year, DATE_LUT_MIN_YEAR) \/ FLt(month, 1) \/ FGt(month, 12)
       \/ FLt(day_of_month, 1) \/ FGt(day_of_month, 31)
       \/ FLt(hour, 0) \/ FGt(hour, 99) \/ FLt(minute, 0) \/ FGt(minute, 99)
       \/ FLt(second, 0) \/ FGt(second, 99)
    THEN minDateTime
    ELSE IF FGt(year, DATE_LUT_MAX_YEAR) THEN maxDateTime
    ELSE lut_makeDateTime(Int16Of(static_cast_int(year)), UInt8Of(static_cast_int(month)),
                          UInt8Of(static_cast_int(day_of_month)), UInt8Of(static_cast_int(hour)),
                          UInt8Of(static_cast_int(minute)), UInt8Of(static_cast_int(second)))

\* The store without the clamp: static_cast<UInt32>(date_time) alone.
StoreDateTime_noClamp(dt) == UInt32Of(dt)

\* The clamp of makeDateTime and YYYYMMDDhhmmssToDateTime and the store
\* result_data[i] = static_cast<UInt32>(date_time).
StoreDateTime(dt) ==
    UInt32Of(IF BigLt(dt, BigZero) THEN BigZero
             ELSE IF BigLt(UINT32_MAX, dt) THEN UINT32_MAX
             ELSE dt)

\* DecimalUtils::decimalFromComponents<DateTime64>(whole, fractional, scale):
\* whole * 10^scale + sign(whole) * (fractional % 10^scale) in checked 64-bit
\* arithmetic; ok is FALSE when a step overflows (DECIMAL_OVERFLOW is thrown).
decimalFromComponents(whole, fractional, scale) ==
    LET whole_scaled == BigMulPow10(whole, scale)
        part == TruncMod(fractional, Pow10(scale))
        value == BigAdd(whole_scaled, Big(IF whole.neg THEN -part ELSE part))
    IN  [ok |-> FitsInt64(whole_scaled) /\ FitsInt64(value), value |-> value]

\* pow(10, precision) without the - 1
max_fraction_offByOne(p) == Pow10(p)

\* pow(10, precision) - 1
max_fraction(p) == Pow10(p) - 1

\* The body of the loop of makeDateTime64 up to the packing: the date_time and
\* the static_cast<Int64>(fraction) handed to decimalFromComponents.  frac is
\* (*fraction_data)[i], or 0 when the fraction argument is absent.
makeDateTime64_components(year, month, day, hour, minute, second, frac, p) ==
    LET dt == dateTime(year, month, day, hour, minute, second)
    IN  IF dt = minDateTime THEN [date_time |-> dt, fraction |-> 0]
        ELSE IF dt = maxDateTime THEN [date_time |-> dt, fraction |-> 999999999]
        ELSE IF isnan(frac) THEN [date_time |-> minDateTime, fraction |-> 0]
        ELSE IF FLt(frac, 0) THEN [date_time |-> dt, fraction |-> 0]
        ELSE IF FGt(frac, max_fraction(p)) THEN [date_time |-> dt, fraction |-> max_fraction(p)]
        ELSE [date_time |-> dt, fraction |-> static_cast_int(frac)]

(***************************************************************************)
(* The Float64 argument of the YYYYMMDDhhmmss functions: NaN, an infinity, *)
(* or sign * (mag + q / 4) with mag a whole Int64 magnitude and q quarters.*)
(***************************************************************************)
PackedNaN == [cls |-> "nan", neg |-> FALSE, mag |-> BigZero, q |-> 0]
PackedInf == [cls |-> "inf", neg |-> FALSE, mag |-> BigZero, q |-> 0]
PackedNegInf == [cls |-> "ninf", neg |-> TRUE, mag |-> BigZero, q |-> 0]
\* yyyymmdd * 10^6 + hhmmss + q / 4, negated when neg
Packed(neg, yyyymmdd, hhmmss, q) ==
    [cls |-> "fin", neg |-> neg,
     mag |-> BigAdd(BigMulPow10(Big(yyyymmdd), 6), Big(hhmmss)), q |-> q]

\* std::llround of a finite packed value
packed_llround(x) ==
    LET up == IF x.q >= 2 THEN BigAdd(x.mag, Big(1)) ELSE x.mag
    IN  IF x.neg THEN BigNeg(up) ELSE up
\* 4 * (x - llround(x)): the residue in quarters, in -2 .. 2
packed_decimal4(x) ==
    LET d == IF x.q >= 2 THEN x.q - 4 ELSE x.q
    IN  IF x.neg THEN -d ELSE d
\* std::llround(decimal * fraction_pow) for the residue d4 / 4
residue_fraction(d4, fraction_pow) ==
    LET num == d4 * fraction_pow
    IN  IF num >= 0 THEN (num + 2) \div 4 ELSE -((2 - num) \div 4)

\* The decomposition with the minute taken as hhmmss / 100.
decompose_minuteNoMod(yyyymmddhhmmss) ==
    LET yyyymmdd == BigDivPow10(yyyymmddhhmmss, 6)
        hhmmss == BigModPow10(yyyymmddhhmmss, 6)
    IN  [year |-> BigToInt(BigDivPow10(yyyymmdd, 4)),
         month |-> BigModPow10(BigDivPow10(yyyymmdd, 2), 2),
         day |-> BigModPow10(yyyymmdd, 2),
         hour |-> TruncDiv(hhmmss, 10000),
         minute |-> TruncDiv(hhmmss, 100),
         second |-> TruncMod(hhmmss, 100)]

\* The decomposition with the second taken as hhmmss % 1000.
decompose_secondMod1000(yyyymmddhhmmss) ==
    LET yyyymmdd == BigDivPow10(yyyymmddhhmmss, 6)
        hhmmss == BigModPow10(yyyymmddhhmmss, 6)
    IN  [year |-> BigToInt(BigDivPow10(yyyymmdd, 4)),
         month |-> BigModPow10(BigDivPow10(yyyymmdd, 2), 2),
         day |-> BigModPow10(yyyymmdd, 2),
         hour |-> TruncDiv(hhmmss, 10000),
         minute |-> TruncMod(TruncDiv(hhmmss, 100), 100),
         second |-> TruncMod(hhmmss, 1000)]

\* The fields the YYYYMMDDhhmmss loops decompose an integer into.
decompose(yyyymmddhhmmss) ==
    LET yyyymmdd == BigDivPow10(yyyymmddhhmmss, 6)
        hhmmss == BigModPow10(yyyymmddhhmmss, 6)
    IN  [year |-> BigToInt(BigDivPow10(yyyymmdd, 4)),
         month |-> BigModPow10(BigDivPow10(yyyymmdd, 2), 2),
         day |-> BigModPow10(yyyymmdd, 2),
         hour |-> TruncDiv(hhmmss, 10000),
         minute |-> TruncMod(TruncDiv(hhmmss, 100), 100),
         second |-> TruncMod(hhmmss, 100)]

\* The dateTime call with the month and the day exchanged.
packed_dateTime_swapped(x) ==
    LET f == decompose(packed_llround(x))
    IN  dateTime(F(f.year), F(f.day), F(f.month), F(f.hour), F(f.minute), F(f.second))

\* dateTime(year, month, day, hour, minute, second, date_lut) on the
\* decomposition of a finite packed value.
packed_dateTime(x) ==
    LET f == decompose(packed_llround(x))
    IN  dateTime(F(f.year), F(f.month), F(f.day), F(f.hour), F(f.minute), F(f.second))

\* The arguments of lut.makeDateTime in minDateTime and in maxDateTime.
minDateTime_lut_call == <<DATE_LUT_MIN_YEAR - 1, 1, 1, 0, 0, 0>>
maxDateTime_lut_call == <<DATE_LUT_MAX_YEAR + 1, 1, 1, 23, 59, 59>>

\* lut_calls_dateTime without the test hour > 99.
lut_calls_dateTime_noHourMax(year, month, day_of_month, hour, minute, second) ==
    IF \/ isnan(year) \/ isnan(month) \/ isnan(day_of_month)
       \/ isnan(hour) \/ isnan(minute) \/ isnan(second)
       \/ FLt(year, DATE_LUT_MIN_YEAR) \/ FLt(month, 1) \/ FGt(month, 12)
       \/ FLt(day_of_month, 1) \/ FGt(day_of_month, 31)
       \/ FLt(hour, 0) \/ FLt(minute, 0) \/ FGt(minute, 99)
       \/ FLt(second, 0) \/ FGt(second, 99)
    THEN {minDateTime_lut_call}
    ELSE IF FGt(year, DATE_LUT_MAX_YEAR) THEN {maxDateTime_lut_call}
    ELSE {<<Int16Of(static_cast_int(year)), UInt8Of(static_cast_int(month)),
            UInt8Of(static_cast_int(day_of_month)), UInt8Of(static_cast_int(hour)),
            UInt8Of(static_cast_int(minute)), UInt8Of(static_cast_int(second))>>}

\* The call of lut.makeDateTime one call of dateTime makes: that of
\* minDateTime, that of maxDateTime, or the one with the narrowed fields.
lut_calls_dateTime(year, month, day_of_month, hour, minute, second) ==
    IF \/ isnan(year) \/ isnan(month) \/ isnan(day_of_month)
       \/ isnan(hour) \/ isnan(minute) \/ isnan(second)
       \/ FLt(year, DATE_LUT_MIN_YEAR) \/ FLt(month, 1) \/ FGt(month, 12)
       \/ FLt(day_of_month, 1) \/ FGt(day_of_month, 31)
       \/ FLt(hour, 0) \/ FGt(hour, 99) \/ FLt(minute, 0) \/ FGt(minute, 99)
       \/ FLt(second, 0) \/ FGt(second, 99)
    THEN {minDateTime_lut_call}
    ELSE IF FGt(year, DATE_LUT_MAX_YEAR) THEN {maxDateTime_lut_call}
    ELSE {<<Int16Of(static_cast_int(year)), UInt8Of(static_cast_int(month)),
            UInt8Of(static_cast_int(day_of_month)), UInt8Of(static_cast_int(hour)),
            UInt8Of(static_cast_int(minute)), UInt8Of(static_cast_int(second))>>}

\* The call dateTime makes on the decomposition of a finite packed value.
lut_calls_packed_dateTime(x) ==
    LET f == decompose(packed_llround(x))
    IN  lut_calls_dateTime(F(f.year), F(f.month), F(f.day), F(f.hour), F(f.minute), F(f.second))

\* Column values the datetime functions are run on.
YearValues ==
    {NaN, NegInf, F(1899), F(1900), F(1969), F(1970), F(2023), FHalf(2023), F(2106), F(2299),
     F(2300), Inf}
MonthValues == {NaN, F(0), F(1), F(2), F(12), F(13)}
DayValues == {NaN, F(0), F(1), F(28), F(31), F(32)}
HourValues == {NaN, F(-1), F(0), F(17), F(23), F(99), F(100)}
MinuteValues == {NaN, F(-1), F(0), F(12), F(99), F(100)}
SecondValues == {NaN, FHalf(-1), F(0), F(33), FHalf(59), F(99), FHalf(99)}

\* Rows makeDateTime64 is run on: fewer field values, with the rows that meet
\* a sentinel, the documented example and the last second a precision of 9
\* can hold; fractions around 0 and around the largest fraction of the
\* precision.
FieldRows64 ==
    ({F(1899), F(1900), F(2023), F(2263), F(2299), F(2300)} \X {F(5), F(12), F(13)}
        \X {F(15), F(31)} \X {F(10), F(23), F(99)} \X {F(30), F(59)} \X {F(45), F(59)})
    \cup {<<F(1900), F(1), F(1), F(0), F(0), F(0)>>,
          <<NaN, F(5), F(15), F(10), F(30), F(45)>>,
          <<F(2262), F(4), F(11), F(23), F(47), F(16)>>,
          <<F(2262), F(4), F(11), F(23), F(47), F(17)>>}
FractionValues(p) ==
    {NaN, F(-1), FHalf(-1), F(0), FHalf(5), F(779), F(max_fraction(p)),
     FHalf(max_fraction(p)), F(Pow10(p)), Inf}

PackedValues ==
    {PackedNaN, PackedInf, PackedNegInf,
     Packed(FALSE, 0, 0, 0), Packed(TRUE, 20230911, 131415, 0), Packed(TRUE, 0, 0, 1),
     Packed(FALSE, 18991231, 235959, 0), Packed(FALSE, 19000101, 0, 0),
     Packed(FALSE, 19691231, 235959, 0), Packed(FALSE, 19691231, 235959, 2),
     Packed(FALSE, 19700101, 0, 0), Packed(FALSE, 19700101, 0, 3),
     Packed(FALSE, 20230911, 131415, 0), Packed(FALSE, 20230911, 131415, 1),
     Packed(FALSE, 20230911, 131415, 2), Packed(FALSE, 20230911, 131415, 3),
     Packed(FALSE, 20230911, 999999, 0), Packed(FALSE, 20230911, 246060, 0),
     Packed(FALSE, 20230931, 0, 0), Packed(FALSE, 20230932, 0, 0),
     Packed(FALSE, 20231301, 0, 0), Packed(FALSE, 20230011, 0, 0),
     Packed(FALSE, 21060207, 62815, 0), Packed(FALSE, 21060207, 62816, 0),
     Packed(FALSE, 22620411, 234716, 0), Packed(FALSE, 22620411, 234717, 0),
     Packed(FALSE, 22991231, 235959, 0), Packed(FALSE, 22991231, 235959, 1),
     Packed(FALSE, 22991231, 999999, 0), Packed(FALSE, 23000101, 0, 0),
     Packed(FALSE, 23000101, 0, 1), Packed(FALSE, 18991231, 235959, 1),
     Packed(FALSE, 999999999, 999999, 0)}

DateTimeFunctions == {"makeDateTime", "YYYYMMDDhhmmssToDateTime"}
DateTime64Functions == {"makeDateTime64", "YYYYMMDDhhmmssToDateTime64"}

\* getReturnTypeImpl and executeImpl of makeDateTime and
\* YYYYMMDDhhmmssToDateTime up to the row loop: extractTimezone throws
\* ILLEGAL_TYPE_OF_ARGUMENT for a timezone argument that is not constant.
StartDateTime ==
    /\ pc = "start"
    /\ fn \in DateTimeFunctions
    /\ IF HasTimezoneArgument(fn, nargs) /\ ~timezone_is_const
       THEN /\ pc' = "thrown"
            /\ exception' = "ILLEGAL_TYPE_OF_ARGUMENT"
       ELSE /\ pc' = "loop"
            /\ UNCHANGED exception
    /\ UNCHANGED <<fn, nargs, precision_arg, precision_is_const, timezone_is_const, precision,
                   input_rows_count, i, row, date_time, fraction, result_data, lut_calls>>

\* StartDateTime64 without the assignment of the extracted precision.
StartDateTime64_precisionIgnored ==
    /\ pc = "start"
    /\ fn \in DateTime64Functions
    /\ IF HasPrecisionArgument(fn, nargs) /\ ~precision_is_const
       THEN /\ pc' = "thrown"
            /\ exception' = "ILLEGAL_TYPE_OF_ARGUMENT"
       ELSE IF HasPrecisionArgument(fn, nargs) /\ (precision_arg < 0 \/ precision_arg > 9)
       THEN /\ pc' = "thrown"
            /\ exception' = "ARGUMENT_OUT_OF_BOUND"
       ELSE IF HasTimezoneArgument(fn, nargs) /\ ~timezone_is_const
       THEN /\ pc' = "thrown"
            /\ exception' = "ILLEGAL_TYPE_OF_ARGUMENT"
       ELSE /\ pc' = "loop"
            /\ UNCHANGED exception
    /\ UNCHANGED <<fn, nargs, precision_arg, precision_is_const, timezone_is_const, precision,
                   input_rows_count, i, row, date_time, fraction, result_data, lut_calls>>

\* getReturnTypeImpl and executeImpl of makeDateTime64 and
\* YYYYMMDDhhmmssToDateTime64 up to the row loop.  extractPrecision throws
\* ILLEGAL_TYPE_OF_ARGUMENT for a precision argument that is not constant and
\* ARGUMENT_OUT_OF_BOUND for a precision outside [0, 9]; extractTimezone, called
\* after it, throws ILLEGAL_TYPE_OF_ARGUMENT for a timezone argument that is not
\* constant; without the argument the precision stays DEFAULT_PRECISION.
StartDateTime64 ==
    /\ pc = "start"
    /\ fn \in DateTime64Functions
    /\ IF HasPrecisionArgument(fn, nargs) /\ ~precision_is_const
       THEN /\ pc' = "thrown"
            /\ exception' = "ILLEGAL_TYPE_OF_ARGUMENT"
            /\ UNCHANGED precision
       ELSE IF HasPrecisionArgument(fn, nargs) /\ (precision_arg < 0 \/ precision_arg > 9)
       THEN /\ pc' = "thrown"
            /\ exception' = "ARGUMENT_OUT_OF_BOUND"
            /\ UNCHANGED precision
       ELSE IF HasTimezoneArgument(fn, nargs) /\ ~timezone_is_const
       THEN /\ pc' = "thrown"
            /\ exception' = "ILLEGAL_TYPE_OF_ARGUMENT"
            /\ precision' = IF HasPrecisionArgument(fn, nargs) THEN precision_arg
                            ELSE DEFAULT_PRECISION
       ELSE /\ pc' = "loop"
            /\ precision' = IF HasPrecisionArgument(fn, nargs) THEN precision_arg
                            ELSE DEFAULT_PRECISION
            /\ UNCHANGED exception
    /\ UNCHANGED <<fn, nargs, precision_arg, precision_is_const, timezone_is_const,
                   input_rows_count, i, row, date_time, fraction, result_data, lut_calls>>

\* One iteration of the loop of FunctionMakeDateTime.
MakeDateTimeRow ==
    /\ pc = "loop"
    /\ fn = "makeDateTime"
    /\ i < input_rows_count
    /\ \E year \in YearValues, month \in MonthValues, day \in DayValues,
          hour \in HourValues, minute \in MinuteValues, second \in SecondValues :
           /\ row' = <<year, month, day, hour, minute, second>>
           /\ lut_calls' = lut_calls_dateTime(year, month, day, hour, minute, second)
           /\ date_time' = dateTime(year, month, day, hour, minute, second)
           /\ result_data' = <<StoreDateTime(date_time')>>
    /\ pc' = "stored"
    /\ UNCHANGED <<fn, nargs, precision_arg, precision_is_const, timezone_is_const,
                   precision, input_rows_count, i, fraction, exception>>

\* One iteration of the loop of FunctionMakeDateTime64: the element is
\* written, or decimalFromComponents throws DECIMAL_OVERFLOW.
MakeDateTime64Row ==
    /\ pc = "loop"
    /\ fn = "makeDateTime64"
    /\ i < input_rows_count
    /\ \E f \in FieldRows64,
          frac \in IF nargs >= 7 THEN FractionValues(precision) ELSE {F(0)} :
           LET c == makeDateTime64_components(f[1], f[2], f[3], f[4], f[5], f[6],
                                              frac, precision)
               packed == decimalFromComponents(c.date_time, c.fraction, precision)
           IN  /\ row' = IF nargs >= 7 THEN f \o <<frac>> ELSE f
               /\ lut_calls' = lut_calls_dateTime(f[1], f[2], f[3], f[4], f[5], f[6])
               /\ date_time' = c.date_time
               /\ fraction' = c.fraction
               /\ IF packed.ok
                  THEN /\ result_data' = <<packed.value>>
                       /\ pc' = "stored"
                       /\ UNCHANGED exception
                  ELSE /\ pc' = "thrown"
                       /\ exception' = "DECIMAL_OVERFLOW"
                       /\ UNCHANGED result_data
    /\ UNCHANGED <<fn, nargs, precision_arg, precision_is_const, timezone_is_const,
                   precision, input_rows_count, i>>

\* One iteration of the loop of FunctionYYYYMMDDhhmmssToDateTime on a finite
\* argument.
YYYYMMDDhhmmssToDateTimeRow ==
    /\ pc = "loop"
    /\ fn = "YYYYMMDDhhmmssToDateTime"
    /\ i < input_rows_count
    /\ \E arg \in PackedValues :
           /\ arg.cls = "fin"
           /\ row' = <<arg>>
           /\ lut_calls' = lut_calls_packed_dateTime(arg)
           /\ date_time' = packed_dateTime(arg)
           /\ result_data' = <<StoreDateTime(date_time')>>
    /\ pc' = "stored"
    /\ UNCHANGED <<fn, nargs, precision_arg, precision_is_const, timezone_is_const,
                   precision, input_rows_count, i, fraction, exception>>

\* One iteration of the loop of FunctionYYYYMMDDhhmmssToDateTime64 on a finite
\* argument: the element is written, or decimalFromComponents throws.
YYYYMMDDhhmmssToDateTime64Row ==
    /\ pc = "loop"
    /\ fn = "YYYYMMDDhhmmssToDateTime64"
    /\ i < input_rows_count
    /\ \E arg \in PackedValues :
           LET dt == packed_dateTime(arg)
               fr == residue_fraction(packed_decimal4(arg), Pow10(precision))
               packed == decimalFromComponents(dt, fr, precision)
           IN  /\ arg.cls = "fin"
               /\ row' = <<arg>>
               /\ lut_calls' = lut_calls_packed_dateTime(arg)
               /\ date_time' = dt
               /\ fraction' = fr
               /\ IF packed.ok
                  THEN /\ result_data' = <<packed.value>>
                       /\ pc' = "stored"
                       /\ UNCHANGED exception
                  ELSE /\ pc' = "thrown"
                       /\ exception' = "DECIMAL_OVERFLOW"
                       /\ UNCHANGED result_data
    /\ UNCHANGED <<fn, nargs, precision_arg, precision_is_const, timezone_is_const,
                   precision, input_rows_count, i>>

\* The throw of a YYYYMMDDhhmmss loop placed after the store of the element.
YYYYMMDDhhmmssThrow_afterStore ==
    /\ pc = "loop"
    /\ fn \in {"YYYYMMDDhhmmssToDateTime", "YYYYMMDDhhmmssToDateTime64"}
    /\ i < input_rows_count
    /\ \E arg \in PackedValues :
           /\ arg.cls # "fin"
           /\ row' = <<arg>>
    /\ result_data' = <<BigZero>>
    /\ pc' = "thrown"
    /\ exception' = "BAD_ARGUMENTS"
    /\ UNCHANGED <<fn, nargs, precision_arg, precision_is_const, timezone_is_const,
                   precision, input_rows_count, i, date_time, fraction, lut_calls>>

\* The iteration of a YYYYMMDDhhmmss loop that meets an infinite or NaN
\* argument: the call throws BAD_ARGUMENTS.
YYYYMMDDhhmmssThrow ==
    /\ pc = "loop"
    /\ fn \in {"YYYYMMDDhhmmssToDateTime", "YYYYMMDDhhmmssToDateTime64"}
    /\ i < input_rows_count
    /\ \E arg \in PackedValues :
           /\ arg.cls # "fin"
           /\ row' = <<arg>>
    /\ pc' = "thrown"
    /\ exception' = "BAD_ARGUMENTS"
    /\ UNCHANGED <<fn, nargs, precision_arg, precision_is_const, timezone_is_const,
                   precision, input_rows_count, i, date_time, fraction, result_data, lut_calls>>

NextDateTime ==
    \/ StartDateTime
    \/ MakeDateTimeRow
    \/ YYYYMMDDhhmmssToDateTimeRow
    \/ YYYYMMDDhhmmssThrow
    \/ NextRow
    \/ Return

NextMakeDateTime64 ==
    \/ StartDateTime64
    \/ MakeDateTime64Row
    \/ NextRow
    \/ Return

NextPacked64 ==
    \/ StartDateTime64
    \/ YYYYMMDDhhmmssToDateTime64Row
    \/ YYYYMMDDhhmmssThrow
    \/ NextRow
    \/ Return

\* Calls of makeDateTime and YYYYMMDDhhmmssToDateTime.
SpecDateTime == InitCall(DateTimeFunctions) /\ [][NextDateTime]_vars
\* Calls of makeDateTime64.
SpecMakeDateTime64 == InitCall({"makeDateTime64"}) /\ [][NextMakeDateTime64]_vars
NextDateTime64 ==
    \/ StartDateTime64
    \/ MakeDateTime64Row
    \/ YYYYMMDDhhmmssToDateTime64Row
    \/ YYYYMMDDhhmmssThrow
    \/ NextRow
    \/ Return

\* Calls of makeDateTime64 and YYYYMMDDhhmmssToDateTime64.
SpecDateTime64 == InitCall(DateTime64Functions) /\ [][NextDateTime64]_vars
\* Calls of YYYYMMDDhhmmssToDateTime64.
SpecPacked64 == InitCall({"YYYYMMDDhhmmssToDateTime64"}) /\ [][NextPacked64]_vars

NextFields ==
    \/ StartDate
    \/ StartDateTime
    \/ MakeDateYearMonthDayRow
    \/ MakeDateYearDayOfYearRow
    \/ MakeDateTimeRow
    \/ NextRow
    \/ Return

\* Calls of makeDate, makeDate32 and makeDateTime: rows of calendar fields.
SpecFields == InitCall(MakeDateNames \cup {"makeDateTime"}) /\ [][NextFields]_vars

\* The functions that decompose one packed argument.
PackedDecomposers == YYYYMMDDNames \cup {"YYYYMMDDhhmmssToDateTime", "YYYYMMDDhhmmssToDateTime64"}

NextPackedDecomposers ==
    \/ StartDate
    \/ StartDateTime
    \/ StartDateTime64
    \/ YYYYMMDDToDateRow
    \/ YYYYMMDDToDateThrow
    \/ YYYYMMDDhhmmssToDateTimeRow
    \/ YYYYMMDDhhmmssToDateTime64Row
    \/ YYYYMMDDhhmmssThrow
    \/ NextRow
    \/ Return

\* Calls of the four packed decomposers.
SpecPackedDecomposers == InitCall(PackedDecomposers) /\ [][NextPackedDecomposers]_vars

Next ==
    \/ StartDate
    \/ MakeDateYearMonthDayRow
    \/ MakeDateYearDayOfYearRow
    \/ YYYYMMDDToDateRow
    \/ YYYYMMDDToDateThrow
    \/ StartDateTime
    \/ MakeDateTimeRow
    \/ YYYYMMDDhhmmssToDateTimeRow
    \/ StartDateTime64
    \/ MakeDateTime64Row
    \/ YYYYMMDDhhmmssToDateTime64Row
    \/ YYYYMMDDhhmmssThrow
    \/ NextRow
    \/ Return

\* Calls of any of the eight functions.
Spec == InitCall(DateFunctions \cup DateTimeFunctions \cup DateTime64Functions) /\ [][Next]_vars

(***************************************************************************)
(* Properties of the date functions (checked under SpecDate).              *)
(***************************************************************************)
\* A float that holds a whole number, and that number.
IsWhole(x) == x.cls = "fin" /\ x.h % 2 = 0
Whole(x) == TruncDiv(x.h, 2)
\* A float outside [lo, hi] (NaN is not outside: it is not ordered).
Outside(x, lo, hi) == FLt(x, lo) \/ FGt(x, hi)
Within(x, lo, hi) == FGe(x, lo) /\ FLe(x, hi)

\* The loop body of makeDate / makeDate32 has written the element of a
\* (year, month, day) row, or of a (year, dayofyear) row.
StoredYearMonthDay == pc = "stored" /\ fn \in MakeDateNames /\ nargs = 3
StoredYearDayOfYear == pc = "stored" /\ fn \in MakeDateNames /\ nargs = 2
StoredYYYYMMDD == pc = "stored" /\ fn \in YYYYMMDDNames

\* The day number of the traits' MAX_DATE.
MaxDateDayNum(T) == makeDayNum(T.MAX_DATE[1], T.MAX_DATE[2], T.MAX_DATE[3])

\* C1: makeDate and makeDate32 of whole (year, month, day) with the year in
\* [MIN_YEAR, MAX_YEAR], the month in [1,12], the day in [1,31] and a day
\* number not above that of MAX_DATE store the Calendar Service's day number.
C1_MakeDateIsDayNumber ==
    StoredYearMonthDay =>
        LET T == TraitsOf(fn)
            year == row[1]
            month == row[2]
            day == row[3]
        IN  (/\ IsWhole(year) /\ IsWhole(month) /\ IsWhole(day)
             /\ Whole(year) \in T.MIN_YEAR .. T.MAX_YEAR
             /\ Whole(month) \in 1 .. 12
             /\ Whole(day) \in 1 .. 31
             /\ makeDayNum(Whole(year), Whole(month), Whole(day)) <= MaxDateDayNum(T))
            => result_data = <<makeDayNum(Whole(year), Whole(month), Whole(day))>>

\* C1 witness: makeDate(2149, 6, 6), the last narrow date, stores day 65535.
C1_Witness ==
    /\ StoredYearMonthDay /\ fn = "makeDate"
    /\ row = <<F(2149), F(6), F(6)>>
    /\ result_data = <<65535>>

\* C2 as stated: for every year in [MIN_YEAR, MAX_YEAR] and day of the year in
\* [1,365], makeDate(year, dayofyear) = makeDate(year, 1, 1) + dayofyear - 1.
C2_DayOfYearIsOffsetFromJan1 ==
    StoredYearDayOfYear =>
        LET T == TraitsOf(fn)
            year == row[1]
            dayofyear == row[2]
        IN  (/\ IsWhole(year) /\ IsWhole(dayofyear)
             /\ Whole(year) \in T.MIN_YEAR .. T.MAX_YEAR
             /\ Whole(dayofyear) \in 1 .. 365)
            => result_data =
                   <<StoreDayNum(T, makeDate_year_month_day(T, year, F(1), F(1)))
                         + Whole(dayofyear) - 1>>

\* C2 amended: for every year in [MIN_YEAR, MAX_YEAR] and day of the year in
\* [1,365] (fractional parts dropped), makeDate(year, dayofyear) is
\* makeDate(year, 1, 1) + dayofyear - 1 when that day number does not exceed
\* the day number of MAX_DATE, and 0 when it does.
C2_DayOfYearIsOffsetUnlessAboveMax ==
    StoredYearDayOfYear =>
        LET T == TraitsOf(fn)
            year == row[1]
            dayofyear == row[2]
            sum == StoreDayNum(T, makeDate_year_month_day(T, year, F(1), F(1)))
                       + static_cast_int(dayofyear) - 1
        IN  (Within(year, T.MIN_YEAR, T.MAX_YEAR) /\ Within(dayofyear, 1, 365))
            => result_data = <<IF sum <= MaxDateDayNum(T) THEN sum ELSE 0>>

\* C2 witness: makeDate(2023, 42) stores 2023-02-11, which is
\* makeDate(2023, 1, 1) + 41.
C2_Witness ==
    /\ StoredYearDayOfYear /\ fn = "makeDate"
    /\ row = <<F(2023), F(42)>>
    /\ result_data = <<makeDayNum(2023, 2, 11)>>
    /\ result_data[1] = makeDate_year_month_day(DateTraits, F(2023), F(1), F(1)) + 41

\* C3: a row of makeDate, makeDate32, YYYYMMDDToDate or YYYYMMDDToDate32 with
\* the year outside [MIN_YEAR, MAX_YEAR], the month outside [1,12], the day
\* outside [1,31] (the day of the year outside [1,365]), or, in the field
\* forms, a NaN field, stores 0, and the call does not throw on it.
C3_OutOfRangeStoresZero ==
    /\ StoredYearMonthDay =>
           LET T == TraitsOf(fn)
           IN  (\/ isnan(row[1]) \/ isnan(row[2]) \/ isnan(row[3])
                \/ Outside(row[1], T.MIN_YEAR, T.MAX_YEAR)
                \/ Outside(row[2], 1, 12)
                \/ Outside(row[3], 1, 31))
               => result_data = <<0>>
    /\ StoredYearDayOfYear =>
           LET T == TraitsOf(fn)
           IN  (\/ isnan(row[1]) \/ isnan(row[2])
                \/ Outside(row[1], T.MIN_YEAR, T.MAX_YEAR)
                \/ Outside(row[2], 1, 365))
               => result_data = <<0>>
    /\ StoredYYYYMMDD =>
           LET T == TraitsOf(fn)
               n == llround(row[1])
               year == TruncDiv(n, 10000)
               month == TruncMod(TruncDiv(n, 100), 100)
               day == TruncMod(n, 100)
           IN  (\/ year \notin T.MIN_YEAR .. T.MAX_YEAR
                \/ month \notin 1 .. 12
                \/ day \notin 1 .. 31)
               => result_data = <<0>>
    /\ (pc = "thrown" /\ fn \in DateFunctions) =>
           (fn \in YYYYMMDDNames /\ (isnan(row[1]) \/ isinf(row[1])))

\* C3 witness: makeDate(1969, NaN, 32) has stored 0.
C3_Witness ==
    /\ StoredYearMonthDay /\ fn = "makeDate"
    /\ row = <<F(1969), NaN, F(32)>>
    /\ result_data = <<0>>

MalformedFields(r) ==
    \/ \E k \in 1 .. 6 : isnan(r[k])
    \/ FLt(r[1], DATE_LUT_MIN_YEAR)
    \/ Outside(r[2], 1, 12) \/ Outside(r[3], 1, 31)
    \/ Outside(r[4], 0, 99) \/ Outside(r[5], 0, 99) \/ Outside(r[6], 0, 99)

\* secondsSinceEpoch(minYear - 1, 1, 1, 0, 0, 0) and
\* secondsSinceEpoch(maxYear + 1, 1, 1, 23, 59, 59)
MinSentinel == lut_makeDateTime(DATE_LUT_MIN_YEAR - 1, 1, 1, 0, 0, 0)
MaxSentinel == lut_makeDateTime(DATE_LUT_MAX_YEAR + 1, 1, 1, 23, 59, 59)

\* C5: the value of a row of makeDateTime before the 32-bit clamp is the
\* minimum sentinel if a field is NaN, the year is below the minimum year or
\* another field is out of its bounds; otherwise the maximum sentinel if the
\* year is above the maximum year; otherwise secondsSinceEpoch of the fields.
\* A year above the maximum with another field out of bounds gives the minimum
\* sentinel.
C5_SentinelOrder ==
    (pc = "stored" /\ fn = "makeDateTime") =>
        date_time =
            IF MalformedFields(row) THEN MinSentinel
            ELSE IF FGt(row[1], DATE_LUT_MAX_YEAR) THEN MaxSentinel
            ELSE lut_makeDateTime(static_cast_int(row[1]), static_cast_int(row[2]),
                                  static_cast_int(row[3]), static_cast_int(row[4]),
                                  static_cast_int(row[5]), static_cast_int(row[6]))

\* C5 witness: makeDateTime(2300, 13, 1, 0, 0, 0), year above the maximum and
\* month out of bounds, has resolved to the minimum sentinel, which is not
\* the maximum one.
C5_Witness ==
    /\ pc = "stored" /\ fn = "makeDateTime"
    /\ row = <<F(2300), F(13), F(1), F(0), F(0), F(0)>>
    /\ date_time = MinSentinel
    /\ MinSentinel # MaxSentinel

\* C6: the element makeDateTime or YYYYMMDDhhmmssToDateTime stores lies in
\* [0, 0xFFFFFFFF]: it is 0 for a seconds value below 0, 0xFFFFFFFF for one
\* above 0xFFFFFFFF, and the seconds value itself otherwise.
C6_StoredInUInt32Range ==
    (pc = "stored" /\ fn \in DateTimeFunctions) =>
        LET v == result_data[1]
        IN  /\ BigLe(BigZero, v) /\ BigLe(v, UINT32_MAX)
            /\ v = IF BigLt(date_time, BigZero) THEN BigZero
                   ELSE IF BigLt(UINT32_MAX, date_time) THEN UINT32_MAX
                   ELSE date_time

\* C6 witness: makeDateTime(2300, 1, 1, 0, 0, 0) computes the maximum
\* sentinel, above 0xFFFFFFFF, and has stored 0xFFFFFFFF.
C6_Witness ==
    /\ pc = "stored" /\ fn = "makeDateTime"
    /\ row = <<F(2300), F(1), F(1), F(0), F(0), F(0)>>
    /\ BigLt(UINT32_MAX, date_time)
    /\ result_data = <<UINT32_MAX>>

(***************************************************************************)
(* Properties of makeDateTime64 (checked under SpecMakeDateTime64).        *)
(***************************************************************************)
\* The loop body of makeDateTime64 has run on a row: the element is written
\* or the packing has thrown.
RowDone64 ==
    /\ fn = "makeDateTime64"
    /\ pc = "stored" \/ (pc = "thrown" /\ row # <<>>)

\* seconds * 10^p + frac, with frac subtracted for negative seconds
Composition(seconds, frac, p) ==
    BigAdd(BigMulPow10(seconds, p), Big(IF seconds.neg THEN -frac ELSE frac))

\* The row has packed the given seconds with the given fraction.
Packs(seconds, frac) ==
    pc = "stored" /\ result_data = <<Composition(seconds, frac, precision)>>

\* The base-seconds value of the row: dateTime of its six fields.
BaseSeconds == dateTime(row[1], row[2], row[3], row[4], row[5], row[6])

\* C7: in makeDateTime64, for every precision p in [0,9], a row whose
\* base-seconds value is the minimum sentinel packs fraction 0 and a row
\* whose base-seconds value is the maximum sentinel packs fraction 10^p - 1,
\* whatever fraction the row supplied.
C7_SentinelFractionPacked ==
    RowDone64 =>
        /\ BaseSeconds = MinSentinel => Packs(MinSentinel, 0)
        /\ BaseSeconds = MaxSentinel => Packs(MaxSentinel, Pow10(precision) - 1)

\* C8: in makeDateTime64, for a row whose base-seconds value is neither
\* sentinel: a NaN fraction packs the minimum sentinel with fraction 0, a
\* negative fraction packs 0, a fraction above 10^precision - 1 packs
\* 10^precision - 1, any other fraction is packed as it is (as the integer
\* static_cast<Int64> makes of it).
C8_FractionPacked ==
    (RowDone64 /\ nargs >= 7 /\ BaseSeconds \notin {MinSentinel, MaxSentinel}) =>
        LET frac == row[7]
        IN  IF isnan(frac) THEN Packs(MinSentinel, 0)
            ELSE IF FLt(frac, 0) THEN Packs(BaseSeconds, 0)
            ELSE IF FGt(frac, Pow10(precision) - 1)
                 THEN Packs(BaseSeconds, Pow10(precision) - 1)
            ELSE Packs(BaseSeconds, static_cast_int(frac))

\* C9: in makeDateTime64 with precision 0 every row packs fraction 0 (the
\* element is the seconds value) for any fields and any fraction; with
\* precision 9 no row packs a fraction above 999999999.
C9_PrecisionBoundaries ==
    RowDone64 =>
        /\ precision = 0 => (pc = "stored" /\ result_data = <<date_time>>)
        /\ precision = 9 =>
               /\ fraction \in 0 .. 999999999
               /\ pc = "stored" => Packs(date_time, fraction)

\* C9 witness: makeDateTime64(2023, 5, 15, 10, 30, 45, 1000000000, 9) has
\* packed the fraction 999999999, the largest of precision 9.
C9_Witness ==
    /\ RowDone64 /\ precision = 9
    /\ row = <<F(2023), F(5), F(15), F(10), F(30), F(45), F(Pow10(9))>>
    /\ fraction = 999999999
    /\ Packs(lut_makeDateTime(2023, 5, 15, 10, 30, 45), 999999999)

\* C10: no row of a multi-field constructor makes the call fail: for every
\* fields, fraction and precision in [0,9] the loop body writes an element,
\* the seconds value of the row composed with its fraction, and the call
\* throws only before the first row.
C10_NoRowFailsTheCall ==
    (fn \in {"makeDate", "makeDate32", "makeDateTime", "makeDateTime64"}) =>
        /\ pc = "thrown" => row = <<>>
        /\ RowDone64 => Packs(date_time, fraction % Pow10(precision))

(***************************************************************************)
(* Properties of the packed decomposers (checked under                     *)
(* SpecPackedDecomposers and SpecPacked64).                                *)
(***************************************************************************)
\* The loop of a packed decomposer has failed the call at its row i.
FailedInLoop == fn \in PackedDecomposers /\ pc = "thrown" /\ row # <<>>
NonFinite(x) == isnan(x) \/ isinf(x)

\* C11: in each packed decomposer, an infinite or NaN value at any row
\* position ends the call in BAD_ARGUMENTS with no output column, whatever
\* the other rows hold: a non-finite row never gets an element, the failure
\* on it is BAD_ARGUMENTS, and a call that fails with rows left unread (rows
\* that may hold a non-finite value) has failed with BAD_ARGUMENTS.
C11_NonFiniteEndsInBadArguments ==
    fn \in PackedDecomposers =>
        /\ pc = "stored" => ~NonFinite(row[1])
        /\ (FailedInLoop /\ NonFinite(row[1])) => exception = "BAD_ARGUMENTS"
        /\ (FailedInLoop /\ i + 1 < input_rows_count) => exception = "BAD_ARGUMENTS"

\* C12: YYYYMMDDhhmmssToDateTime64 never fails on a finite argument: for
\* every precision in [0,9] the loop fails the call only on a non-finite
\* argument.
C12_FiniteNeverFails ==
    (fn = "YYYYMMDDhhmmssToDateTime64" /\ FailedInLoop) => NonFinite(row[1])

MalformedConstantArguments ==
    \/ HasPrecisionArgument(fn, nargs) /\ (~precision_is_const \/ precision_arg \notin 0 .. 9)
    \/ HasTimezoneArgument(fn, nargs) /\ ~timezone_is_const
ArgumentErrors == {"ARGUMENT_OUT_OF_BOUND", "ILLEGAL_TYPE_OF_ARGUMENT"}

\* C14: in makeDateTime64 and YYYYMMDDhhmmssToDateTime64 a precision argument
\* outside [0,9], or a precision or timezone argument that is not constant,
\* fails the call with an argument error before any row is converted or
\* computed; a precision in [0,9] is accepted and is the scale of the element
\* of every row of the batch.
C14_PrecisionArgument ==
    (fn \in DateTime64Functions /\ pc # "start") =>
        IF MalformedConstantArguments
        THEN /\ pc = "thrown" /\ exception \in ArgumentErrors
             /\ i = 0 /\ row = <<>> /\ result_data = <<>>
        ELSE LET P == IF HasPrecisionArgument(fn, nargs) THEN precision_arg
                      ELSE DEFAULT_PRECISION
             IN  /\ exception \notin ArgumentErrors
                 /\ precision = P
                 /\ pc = "stored" =>
                        result_data =
                            <<Composition(date_time, TruncMod(fraction, Pow10(P)), P)>>

\* C14 witness: makeDateTime64 with precision 10 on a batch of two rows has
\* failed with ARGUMENT_OUT_OF_BOUND before its first row.
C14_Witness ==
    /\ fn = "makeDateTime64" /\ precision_is_const /\ precision_arg = 10
    /\ input_rows_count = 2
    /\ pc = "thrown" /\ exception = "ARGUMENT_OUT_OF_BOUND"
    /\ i = 0 /\ row = <<>>

(***************************************************************************)
(* Decomposers against constructors (checked under SpecDate, SpecDateTime  *)
(* and SpecFields).                                                        *)
(***************************************************************************)
\* C15: for whole year >= 0 and whole month and day in [0,99],
\* YYYYMMDDToDate(year * 10000 + month * 100 + day) = makeDate(year, month,
\* day), and the same for YYYYMMDDToDate32 and makeDate32, also where both
\* are 0: a decomposer row stores what the constructor computes on its
\* fields, and a constructor row what the decomposer computes on its
\* composition.
C15_PackedDateEqualsMakeDate ==
    /\ (StoredYYYYMMDD /\ IsWhole(row[1]) /\ Whole(row[1]) >= 0) =>
           LET T == TraitsOf(fn)
               n == Whole(row[1])
               year == n \div 10000
               month == (n \div 100) % 100
               day == n % 100
           IN  result_data =
                   <<StoreDayNum(T, makeDate_year_month_day(T, F(year), F(month), F(day)))>>
    /\ (/\ StoredYearMonthDay
        /\ IsWhole(row[1]) /\ IsWhole(row[2]) /\ IsWhole(row[3])
        /\ Whole(row[1]) >= 0 /\ Whole(row[2]) \in 0 .. 99 /\ Whole(row[3]) \in 0 .. 99) =>
           LET T == TraitsOf(fn)
               n == Whole(row[1]) * 10000 + Whole(row[2]) * 100 + Whole(row[3])
           IN  result_data = <<StoreDayNum(T, YYYYMMDDToDate_day_num(T, F(n)))>>

\* C15 witness: YYYYMMDDToDate(20230911) has stored 2023-09-11, the value of
\* makeDate(2023, 9, 11).
C15_Witness ==
    /\ StoredYYYYMMDD /\ fn = "YYYYMMDDToDate"
    /\ row = <<F(20230911)>>
    /\ result_data = <<makeDayNum(2023, 9, 11)>>
    /\ result_data = <<makeDate_year_month_day(DateTraits, F(2023), F(9), F(11))>>

\* n / 10^10, n / 10^8 mod 100, n / 10^6 mod 100, (n mod 10^6) / 10^4,
\* n / 100 mod 100 and n mod 100, with truncating division
FieldsOfPacked(n) ==
    [year |-> BigToInt(BigDivPow10(BigDivPow10(n, 9), 1)),
     month |-> BigModPow10(BigDivPow10(n, 8), 2),
     day |-> BigModPow10(BigDivPow10(n, 6), 2),
     hour |-> TruncDiv(BigModPow10(n, 6), 10000),
     minute |-> BigModPow10(BigDivPow10(n, 2), 2),
     second |-> BigModPow10(n, 2)]

\* The signed integer of a packed argument without a fractional part.
IntegerOfPacked(x) == IF x.neg THEN BigNeg(x.mag) ELSE x.mag

\* C16: for every finite integer n, YYYYMMDDhhmmssToDateTime(n) is
\* makeDateTime(n / 10^10, n / 10^8 mod 100, n / 10^6 mod 100,
\* (n mod 10^6) / 10^4, n / 100 mod 100, n mod 100), sentinels and the 32-bit
\* clamp included.
C16_PackedDateTimeEqualsMakeDateTime ==
    (/\ pc = "stored" /\ fn = "YYYYMMDDhhmmssToDateTime"
     /\ row[1].cls = "fin" /\ row[1].q = 0) =>
        LET f == FieldsOfPacked(IntegerOfPacked(row[1]))
        IN  result_data =
                <<StoreDateTime(dateTime(F(f.year), F(f.month), F(f.day),
                                         F(f.hour), F(f.minute), F(f.second)))>>

\* C16 witness: YYYYMMDDhhmmssToDateTime(20230911131415) has stored the value
\* of makeDateTime(2023, 9, 11, 13, 14, 15).
C16_Witness ==
    /\ pc = "stored" /\ fn = "YYYYMMDDhhmmssToDateTime"
    /\ row = <<Packed(FALSE, 20230911, 131415, 0)>>
    /\ result_data = <<lut_makeDateTime(2023, 9, 11, 13, 14, 15)>>
    /\ result_data = <<StoreDateTime(dateTime(F(2023), F(9), F(11), F(13), F(14), F(15)))>>

\* C17: decomposition inverts composition.  For whole fields with the year in
\* the validated range, the month in [1,12], the day in [1,31] and the hour,
\* minute and second in [0,99], the steps of the datetime decomposer on
\* year * 10^10 + month * 10^8 + day * 10^6 + hour * 10^4 + minute * 100 +
\* second give the six fields back, and the steps of the date decomposer on
\* year * 10000 + month * 100 + day give the three fields back.
C17_DecompositionInvertsComposition ==
    /\ (/\ StoredYearMonthDay
        /\ IsWhole(row[1]) /\ IsWhole(row[2]) /\ IsWhole(row[3])
        /\ Whole(row[1]) \in TraitsOf(fn).MIN_YEAR .. TraitsOf(fn).MAX_YEAR
        /\ Whole(row[2]) \in 1 .. 12 /\ Whole(row[3]) \in 1 .. 31) =>
           decomposeDate(Whole(row[1]) * 10000 + Whole(row[2]) * 100 + Whole(row[3]))
               = [year |-> Whole(row[1]), month |-> Whole(row[2]), day |-> Whole(row[3])]
    /\ (/\ pc = "stored" /\ fn = "makeDateTime"
        /\ \A k \in 1 .. 6 : IsWhole(row[k])
        /\ Whole(row[1]) \in DATE_LUT_MIN_YEAR .. DATE_LUT_MAX_YEAR
        /\ Whole(row[2]) \in 1 .. 12 /\ Whole(row[3]) \in 1 .. 31
        /\ \A k \in 4 .. 6 : Whole(row[k]) \in 0 .. 99) =>
           decompose(BigAdd(BigMulPow10(Big(Whole(row[1]) * 10000 + Whole(row[2]) * 100
                                                + Whole(row[3])), 6),
                            Big(Whole(row[4]) * 10000 + Whole(row[5]) * 100 + Whole(row[6]))))
               = [year |-> Whole(row[1]), month |-> Whole(row[2]), day |-> Whole(row[3]),
                  hour |-> Whole(row[4]), minute |-> Whole(row[5]), second |-> Whole(row[6])]

\* C17 witness: the fields (2299, 12, 31, 99, 99, 99), the largest of their
\* ranges, are read and their composition 22991231999999 decomposes into them.
C17_Witness ==
    /\ pc = "stored" /\ fn = "makeDateTime"
    /\ row = <<F(2299), F(12), F(31), F(99), F(99), F(99)>>
    /\ decompose(BigAdd(BigMulPow10(Big(22991231), 6), Big(999999))).minute = 99

(***************************************************************************)
(* The fraction of YYYYMMDDhhmmssToDateTime64 (checked under SpecPacked64) *)
(* and the in-bounds rows of makeDateTime64 (SpecMakeDateTime64).          *)
(***************************************************************************)
\* C18: YYYYMMDDhhmmssToDateTime64 packs the fraction
\* round((input - round(input)) * 10^precision) of every finite row with the
\* seconds value of its decomposed fields: at the minimum or the maximum
\* sentinel the fraction is not replaced by 0 or by 10^precision - 1, and the
\* seconds value is not clamped to [0, 0xFFFFFFFF].
C18_ResidueFractionPacked ==
    (/\ fn = "YYYYMMDDhhmmssToDateTime64"
     /\ pc = "stored" \/ (FailedInLoop /\ ~NonFinite(row[1]))) =>
        Packs(packed_dateTime(row[1]),
              residue_fraction(packed_decimal4(row[1]), Pow10(precision)))

\* C20: a row of makeDateTime64 with the year in [1900, 2299], the month in
\* [1,12], the day in [1,31], the hour, minute and second in [0,99] and a
\* finite fraction f packs secondsSinceEpoch of its fields with the fraction
\* min(max(f, 0), 10^precision - 1); the sentinel override does not apply to
\* it.
C20_InBoundsRowPacksItsOwnFraction ==
    (/\ RowDone64 /\ nargs >= 7
     /\ Within(row[1], DATE_LUT_MIN_YEAR, DATE_LUT_MAX_YEAR)
     /\ Within(row[2], 1, 12) /\ Within(row[3], 1, 31)
     /\ Within(row[4], 0, 99) /\ Within(row[5], 0, 99) /\ Within(row[6], 0, 99)
     /\ row[7].cls = "fin") =>
        Packs(lut_makeDateTime(static_cast_int(row[1]), static_cast_int(row[2]),
                               static_cast_int(row[3]), static_cast_int(row[4]),
                               static_cast_int(row[5]), static_cast_int(row[6])),
              IF FLt(row[7], 0) THEN 0
              ELSE IF FGt(row[7], Pow10(precision) - 1) THEN Pow10(precision) - 1
              ELSE static_cast_int(row[7]))

(***************************************************************************)
(* The range of the elements of makeDateTime64 (SpecMakeDateTime64).       *)
(***************************************************************************)
\* minSentinel * 10^p and maxSentinel * 10^p + (10^p - 1)
PackedMinSentinel(p) == BigMulPow10(MinSentinel, p)
PackedMaxSentinel(p) == BigAdd(BigMulPow10(MaxSentinel, p), Big(Pow10(p) - 1))

\* C21: every element makeDateTime64 writes lies between the packed
\* sentinels, minSentinel * 10^precision <= element <=
\* maxSentinel * 10^precision + (10^precision - 1), for every row, every
\* fraction and every precision in [0,9].
C21_OutputBetweenPackedSentinels ==
    (fn = "makeDateTime64" /\ pc = "stored") =>
        /\ BigLe(PackedMinSentinel(precision), result_data[1])
        /\ BigLe(result_data[1], PackedMaxSentinel(precision))

(***************************************************************************)
(* The fraction YYYYMMDDhhmmssToDateTime64 hands to the packing            *)
(* (SpecPacked64).                                                         *)
(***************************************************************************)
\* The loop body of YYYYMMDDhhmmssToDateTime64 has run on a finite row: the
\* element is written or the packing has thrown.
FiniteRowDone64 ==
    /\ fn = "YYYYMMDDhhmmssToDateTime64"
    /\ pc = "stored" \/ (FailedInLoop /\ ~NonFinite(row[1]))

\* C22: in YYYYMMDDhhmmssToDateTime64, for every finite input and every
\* precision p in [0,9], the fraction handed to the packing lies in
\* [0, 10^p - 1]; so the element is not below seconds * 10^p of the row's own
\* seconds value, and a row that resolves to the minimum sentinel does not
\* pack a value below minSentinel * 10^p.
C22_FractionWithinPrecision ==
    FiniteRowDone64 =>
        /\ fraction \in 0 .. (Pow10(precision) - 1)
        /\ pc = "stored" =>
               /\ BigLe(BigMulPow10(date_time, precision), result_data[1])
               /\ date_time = MinSentinel =>
                      BigLe(PackedMinSentinel(precision), result_data[1])

(***************************************************************************)
(* The fields the packed datetime decomposers hand to dateTime             *)
(* (SpecPackedDecomposers).                                                *)
(***************************************************************************)
\* The loop body of a packed datetime decomposer has run on a finite row.
FiniteRowDone ==
    /\ fn \in {"YYYYMMDDhhmmssToDateTime", "YYYYMMDDhhmmssToDateTime64"}
    /\ pc = "stored" \/ (FailedInLoop /\ ~NonFinite(row[1]))

\* C23: in YYYYMMDDhhmmssToDateTime and YYYYMMDDhhmmssToDateTime64, a finite
\* input that rounds to a non-negative integer decomposes into an hour, a
\* minute, a second, a month and a day in [0,99], so the row takes the
\* minimum sentinel only for a year below 1900, a month outside [1,12] or a
\* day outside [1,31], never for its clock fields (otherwise it takes the
\* maximum sentinel for a year above 2299 and secondsSinceEpoch of its fields
\* else); a finite input that rounds below zero takes the minimum sentinel.
C23_ClockFieldsNeverMalformed ==
    FiniteRowDone =>
        LET n == packed_llround(row[1])
            f == decompose(n)
        IN  IF BigLt(n, BigZero) THEN date_time = MinSentinel
            ELSE /\ f.hour \in 0 .. 99 /\ f.minute \in 0 .. 99 /\ f.second \in 0 .. 99
                 /\ f.month \in 0 .. 99 /\ f.day \in 0 .. 99
                 /\ date_time =
                        IF f.year < DATE_LUT_MIN_YEAR \/ f.month \notin 1 .. 12
                               \/ f.day \notin 1 .. 31
                        THEN MinSentinel
                        ELSE IF f.year > DATE_LUT_MAX_YEAR THEN MaxSentinel
                        ELSE lut_makeDateTime(f.year, f.month, f.day,
                                              f.hour, f.minute, f.second)

\* C23 witness: the row 20230911999999 has decomposed into the clock fields
\* 99, 99 and 99 and has taken secondsSinceEpoch(2023, 9, 11, 99, 99, 99), not
\* the minimum sentinel.
C23_Witness ==
    /\ FiniteRowDone
    /\ row = <<Packed(FALSE, 20230911, 999999, 0)>>
    /\ decompose(packed_llround(row[1])).hour = 99
    /\ decompose(packed_llround(row[1])).second = 99
    /\ date_time = lut_makeDateTime(2023, 9, 11, 99, 99, 99)
    /\ date_time # MinSentinel

(***************************************************************************)
(* The arguments of the calendar calls of the eight functions (Spec).      *)
(***************************************************************************)
\* The year range a function validates a row against.
ValidatedYears(name) ==
    IF name \in DateFunctions THEN TraitsOf(name).MIN_YEAR .. TraitsOf(name).MAX_YEAR
    ELSE DATE_LUT_MIN_YEAR .. DATE_LUT_MAX_YEAR

\* The arguments c of a calendar call are within the checked bounds.
CheckedArguments(c) ==
    /\ c[1] \in ValidatedYears(fn)
    /\ c[2] \in 1 .. 12 /\ c[3] \in 1 .. 31
    /\ Len(c) = 6 => (c[4] \in 0 .. 99 /\ c[5] \in 0 .. 99 /\ c[6] \in 0 .. 99)

\* The arguments c are the fields of the row of a multi-field constructor,
\* finite and truncated to integers, unchanged by the narrowing.
PassesFieldsOn(c) ==
    IF fn \in MakeDateNames /\ nargs # 3
    THEN row[1].cls = "fin" /\ c = <<static_cast_int(row[1]), 1, 1>>
    ELSE IF fn \in MakeDateNames \cup {"makeDateTime", "makeDateTime64"}
    THEN \A k \in 1 .. Len(c) : row[k].cls = "fin" /\ c[k] = static_cast_int(row[k])
    ELSE TRUE

\* C24: in all eight functions, every calendar call made for a row has
\* arguments that passed the bounds check: the year in the function's
\* validated year range, the month in [1,12], the day in [1,31], the hour,
\* minute and second in [0,99]; no NaN or out-of-bounds field is narrowed and
\* passed on.
C24_CallsOnlyWithCheckedArguments ==
    \A c \in lut_calls : CheckedArguments(c) /\ PassesFieldsOn(c)

\* C24, amended: every calendar call made for a row either has arguments that
\* passed the bounds check, as above, or is one of the two calls of the
\* datetime functions with the constant arguments (1899, 1, 1, 0, 0, 0) and
\* (2300, 1, 1, 23, 59, 59), whose year is outside the validated range.
C24_CallsWithCheckedOrSentinelArguments ==
    \A c \in lut_calls :
        \/ /\ fn \notin DateFunctions
           /\ c \in {<<DATE_LUT_MIN_YEAR - 1, 1, 1, 0, 0, 0>>,
                     <<DATE_LUT_MAX_YEAR + 1, 1, 1, 23, 59, 59>>}
        \/ CheckedArguments(c) /\ PassesFieldsOn(c)

\* C24 witness: makeDateTime(2023.5, 12, 31, 99, 99, 99) has passed the bounds
\* check and has called the calendar with (2023, 12, 31, 99, 99, 99).
C24_Witness ==
    /\ pc = "stored" /\ fn = "makeDateTime"
    /\ row = <<FHalf(2023), F(12), F(31), F(99), F(99), F(99)>>
    /\ lut_calls = {<<2023, 12, 31, 99, 99, 99>>}

====
